---- MODULE Spec2Model ----
(***************************************************************************)
(* Model of qmt/geometry/geo_data.py: the three geometry containers        *)
(* Geo1DData, Geo2DData and Geo3DData.  One object `self` is modelled; its *)
(* class is fixed by the constructor that created it.  Every method call   *)
(* is one action; `last` records the call just made and how it ended.      *)
(***************************************************************************)
EXTENDS Integers, Sequences, FiniteSets

VARIABLES
    cls,          \* the class of self: "Geo1DData", "Geo2DData" or "Geo3DData"
    parts,        \* self.parts, a dict keyed by part name
    edges,        \* self.edges (Geo2DData), a dict keyed by edge name
    build_order,  \* self.build_order (Geo2DData, Geo3DData), a list of names
    last          \* the call just made and the exception it raised, if any

vars == <<cls, parts, edges, build_order, last>>

(* ----------------------------- bounds --------------------------------- *)

\* longest build_order the model explores
MaxOrder == 4
\* end points of 1D parts are drawn from -1 .. MaxPoint
MaxPoint == 2

(* ----------------------------- inputs --------------------------------- *)

Names == {"a", "b"}
Points == (-1) .. MaxPoint

\* shapely Polygon objects: only is_valid is read by this module
Polygons == {[shape |-> "P1", is_valid |-> TRUE],
             [shape |-> "P2", is_valid |-> TRUE],
             [shape |-> "P3", is_valid |-> FALSE]}

\* shapely LineString objects: nothing is read from them
LineStrings == {[shape |-> "L1", is_valid |-> TRUE],
                [shape |-> "L2", is_valid |-> FALSE]}

\* Part3D objects, opaque
Part3Ds == {"box", "wire"}

(* --------------------------- outcomes --------------------------------- *)

NoError == "None"
DuplicateNameError == "ValueError: Attempted to overwrite"
NotFoundError == "ValueError: Attempted to remove, which doesn't exist"
InvalidGeometryError == "ValueError: is not a valid polygon"
ListRemoveError == "ValueError: list.remove(x): x not in list"

(* ------------------------- python helpers ----------------------------- *)

\* the empty dict {}
EmptyDict == [n \in {} |-> n]

\* d[k] = v
dict_set(d, k, v) == [n \in (DOMAIN d) \cup {k} |-> IF n = k THEN v ELSE d[n]]

\* del d[k]
dict_del(d, k) == [n \in (DOMAIN d) \ {k} |-> d[n]]

Range(s) == {s[i] : i \in 1 .. Len(s)}

RECURSIVE Count(_, _)
Count(x, s) == IF s = <<>> THEN 0
               ELSE (IF Head(s) = x THEN 1 ELSE 0) + Count(x, Tail(s))

RECURSIVE list_remove_last(_, _)
list_remove_last(s, x) ==
    IF s = <<>> THEN <<>>
    ELSE IF s[Len(s)] = x THEN SubSeq(s, 1, Len(s) - 1)
    ELSE list_remove_last(SubSeq(s, 1, Len(s) - 1), x) \o <<s[Len(s)]>>

\* list.remove(x) on a list that holds x: scans from the front and deletes
\* the first item equal to x
RECURSIVE list_remove(_, _)
list_remove(s, x) ==
    IF s = <<>> THEN <<>>
    ELSE IF Head(s) = x THEN Tail(s)
    ELSE <<Head(s)>> \o list_remove(Tail(s), x)

RECURSIVE insort(_, _)
insort(x, s) ==
    IF s = <<>> THEN <<x>>
    ELSE IF x < Head(s) THEN <<x>> \o s
    ELSE <<Head(s)>> \o insort(x, Tail(s))

sorted_unsorted(s) == s

\* sorted(list): ascending, stable
RECURSIVE sorted(_)
sorted(s) == IF s = <<>> THEN <<>>
             ELSE insort(s[Len(s)], sorted(SubSeq(s, 1, Len(s) - 1)))

\* the record of a call: method, name argument, remaining positional
\* arguments, the boolean flag (overwrite / ignore_if_absent), outcome
Call(op, name, args, flag, err) ==
    [op |-> op, name |-> name, args |-> args, flag |-> flag, err |-> err]

(* --------------------------- constructors ----------------------------- *)

\* Geo1DData has no edges and no build_order attribute, Geo3DData no edges:
\* the variables of an attribute the class lacks stay empty.

Geo1DData_init ==
    /\ cls = "Geo1DData"
    /\ parts = EmptyDict
    /\ edges = EmptyDict
    /\ build_order = <<>>

Geo2DData_init ==
    /\ cls = "Geo2DData"
    /\ parts = EmptyDict
    /\ edges = EmptyDict
    /\ build_order = <<>>

Geo3DData_init ==
    /\ cls = "Geo3DData"
    /\ build_order = <<>>
    /\ parts = EmptyDict
    /\ edges = EmptyDict

Init ==
    /\ \/ Geo1DData_init
       \/ Geo2DData_init
       \/ Geo3DData_init
    /\ last = Call("__init__", "", <<>>, FALSE, NoError)

(* ----------------------------- Geo1DData ------------------------------ *)

Geo1DData_add_part(part_name, start_point, end_point, overwrite) ==
    /\ cls = "Geo1DData"
    /\ LET se == sorted(<<start_point, end_point>>)
           start == se[1]
           end == se[2]
       IN IF (part_name \in DOMAIN parts) /\ (~overwrite)
          THEN /\ last' = Call("add_part", part_name, <<start_point, end_point>>,
                               overwrite, DuplicateNameError)
               /\ UNCHANGED <<cls, parts, edges, build_order>>
          ELSE /\ parts' = dict_set(parts, part_name, <<start, end>>)
               /\ last' = Call("add_part", part_name, <<start_point, end_point>>,
                               overwrite, NoError)
               /\ UNCHANGED <<cls, edges, build_order>>

Geo1DData_remove_part(part_name, ignore_if_absent) ==
    /\ cls = "Geo1DData"
    /\ IF part_name \in DOMAIN parts
       THEN /\ parts' = dict_del(parts, part_name)
            /\ last' = Call("remove_part", part_name, <<>>, ignore_if_absent, NoError)
            /\ UNCHANGED <<cls, edges, build_order>>
       ELSE /\ last' = Call("remove_part", part_name, <<>>, ignore_if_absent,
                            IF ~ignore_if_absent THEN NotFoundError ELSE NoError)
            /\ UNCHANGED <<cls, parts, edges, build_order>>

(* ----------------------------- Geo2DData ------------------------------ *)

\* add_part with the duplicate test before the validity test
Geo2DData_add_part_late_validity(part_name, part, overwrite) ==
    /\ cls = "Geo2DData"
    /\ IF (part_name \in DOMAIN parts) /\ (~overwrite)
       THEN /\ last' = Call("add_part", part_name, <<part>>, overwrite,
                            DuplicateNameError)
            /\ UNCHANGED <<cls, parts, edges, build_order>>
       ELSE IF ~part.is_valid
       THEN /\ last' = Call("add_part", part_name, <<part>>, overwrite,
                            InvalidGeometryError)
            /\ UNCHANGED <<cls, parts, edges, build_order>>
       ELSE /\ Len(build_order) < MaxOrder
            /\ parts' = dict_set(parts, part_name, part)
            /\ build_order' = build_order \o <<part_name>>
            /\ last' = Call("add_part", part_name, <<part>>, overwrite, NoError)
            /\ UNCHANGED <<cls, edges>>

Geo2DData_add_part(part_name, part, overwrite) ==
    /\ cls = "Geo2DData"
    /\ IF ~part.is_valid
       THEN /\ last' = Call("add_part", part_name, <<part>>, overwrite,
                            InvalidGeometryError)
            /\ UNCHANGED <<cls, parts, edges, build_order>>
       ELSE IF (part_name \in DOMAIN parts) /\ (~overwrite)
       THEN /\ last' = Call("add_part", part_name, <<part>>, overwrite,
                            DuplicateNameError)
            /\ UNCHANGED <<cls, parts, edges, build_order>>
       ELSE /\ Len(build_order) < MaxOrder
            /\ parts' = dict_set(parts, part_name, part)
            /\ build_order' = build_order \o <<part_name>>
            /\ last' = Call("add_part", part_name, <<part>>, overwrite, NoError)
            /\ UNCHANGED <<cls, edges>>

\* remove_part that raises for an absent name whatever ignore_if_absent says
Geo2DData_remove_part_strict(part_name, ignore_if_absent) ==
    /\ cls = "Geo2DData"
    /\ IF part_name \in DOMAIN parts
       THEN /\ parts' = dict_del(parts, part_name)
            /\ IF part_name \in Range(build_order)
               THEN /\ build_order' = list_remove(build_order, part_name)
                    /\ last' = Call("remove_part", part_name, <<>>,
                                    ignore_if_absent, NoError)
               ELSE /\ build_order' = build_order
                    /\ last' = Call("remove_part", part_name, <<>>,
                                    ignore_if_absent, ListRemoveError)
            /\ UNCHANGED <<cls, edges>>
       ELSE /\ last' = Call("remove_part", part_name, <<>>, ignore_if_absent,
                            NotFoundError)
            /\ UNCHANGED <<cls, parts, edges, build_order>>

\* del self.parts[part_name] runs before self.build_order.remove(part_name),
\* so a ValueError of list.remove leaves the key deleted
Geo2DData_remove_part(part_name, ignore_if_absent) ==
    /\ cls = "Geo2DData"
    /\ IF part_name \in DOMAIN parts
       THEN /\ parts' = dict_del(parts, part_name)
            /\ IF part_name \in Range(build_order)
               THEN /\ build_order' = list_remove(build_order, part_name)
                    /\ last' = Call("remove_part", part_name, <<>>,
                                    ignore_if_absent, NoError)
               ELSE /\ build_order' = build_order
                    /\ last' = Call("remove_part", part_name, <<>>,
                                    ignore_if_absent, ListRemoveError)
            /\ UNCHANGED <<cls, edges>>
       ELSE /\ last' = Call("remove_part", part_name, <<>>, ignore_if_absent,
                            IF ~ignore_if_absent THEN NotFoundError ELSE NoError)
            /\ UNCHANGED <<cls, parts, edges, build_order>>

\* add_edge that never refuses to overwrite
Geo2DData_add_edge_always_overwrite(edge_name, edge, overwrite) ==
    /\ cls = "Geo2DData"
    /\ Len(build_order) < MaxOrder
    /\ edges' = dict_set(edges, edge_name, edge)
    /\ build_order' = build_order \o <<edge_name>>
    /\ last' = Call("add_edge", edge_name, <<edge>>, overwrite, NoError)
    /\ UNCHANGED <<cls, parts>>

\* add_edge that forgets build_order
Geo2DData_add_edge_no_order(edge_name, edge, overwrite) ==
    /\ cls = "Geo2DData"
    /\ IF (edge_name \in DOMAIN edges) /\ (~overwrite)
       THEN /\ last' = Call("add_edge", edge_name, <<edge>>, overwrite,
                            DuplicateNameError)
            /\ UNCHANGED <<cls, parts, edges, build_order>>
       ELSE /\ edges' = dict_set(edges, edge_name, edge)
            /\ last' = Call("add_edge", edge_name, <<edge>>, overwrite, NoError)
            /\ UNCHANGED <<cls, parts, build_order>>

\* add_edge that replaces in place on overwrite
Geo2DData_add_edge_in_place(edge_name, edge, overwrite) ==
    /\ cls = "Geo2DData"
    /\ IF (edge_name \in DOMAIN edges) /\ (~overwrite)
       THEN /\ last' = Call("add_edge", edge_name, <<edge>>, overwrite,
                            DuplicateNameError)
            /\ UNCHANGED <<cls, parts, edges, build_order>>
       ELSE /\ Len(build_order) < MaxOrder
            /\ edges' = dict_set(edges, edge_name, edge)
            /\ build_order' = IF edge_name \in DOMAIN edges
                              THEN build_order
                              ELSE build_order \o <<edge_name>>
            /\ last' = Call("add_edge", edge_name, <<edge>>, overwrite, NoError)
            /\ UNCHANGED <<cls, parts>>

Geo2DData_add_edge(edge_name, edge, overwrite) ==
    /\ cls = "Geo2DData"
    /\ IF (edge_name \in DOMAIN edges) /\ (~overwrite)
       THEN /\ last' = Call("add_edge", edge_name, <<edge>>, overwrite,
                            DuplicateNameError)
            /\ UNCHANGED <<cls, parts, edges, build_order>>
       ELSE /\ Len(build_order) < MaxOrder
            /\ edges' = dict_set(edges, edge_name, edge)
            /\ build_order' = build_order \o <<edge_name>>
            /\ last' = Call("add_edge", edge_name, <<edge>>, overwrite, NoError)
            /\ UNCHANGED <<cls, parts>>

Geo2DData_remove_edge(edge_name, ignore_if_absent) ==
    /\ cls = "Geo2DData"
    /\ IF edge_name \in DOMAIN edges
       THEN /\ edges' = dict_del(edges, edge_name)
            /\ IF edge_name \in Range(build_order)
               THEN /\ build_order' = list_remove(build_order, edge_name)
                    /\ last' = Call("remove_edge", edge_name, <<>>,
                                    ignore_if_absent, NoError)
               ELSE /\ build_order' = build_order
                    /\ last' = Call("remove_edge", edge_name, <<>>,
                                    ignore_if_absent, ListRemoveError)
            /\ UNCHANGED <<cls, parts>>
       ELSE /\ last' = Call("remove_edge", edge_name, <<>>, ignore_if_absent,
                            IF ~ignore_if_absent THEN NotFoundError ELSE NoError)
            /\ UNCHANGED <<cls, parts, edges, build_order>>

(* ----------------------------- Geo3DData ------------------------------ *)

\* add_part that records the name in build_order, as Geo2DData does
Geo3DData_add_part_ordered(part_name, part, overwrite) ==
    /\ cls = "Geo3DData"
    /\ IF (part_name \in DOMAIN parts) /\ (~overwrite)
       THEN /\ last' = Call("add_part", part_name, <<part>>, overwrite,
                            DuplicateNameError)
            /\ UNCHANGED <<cls, parts, edges, build_order>>
       ELSE /\ Len(build_order) < MaxOrder
            /\ parts' = dict_set(parts, part_name, part)
            /\ build_order' = build_order \o <<part_name>>
            /\ last' = Call("add_part", part_name, <<part>>, overwrite, NoError)
            /\ UNCHANGED <<cls, edges>>

Geo3DData_add_part(part_name, part, overwrite) ==
    /\ cls = "Geo3DData"
    /\ IF (part_name \in DOMAIN parts) /\ (~overwrite)
       THEN /\ last' = Call("add_part", part_name, <<part>>, overwrite,
                            DuplicateNameError)
            /\ UNCHANGED <<cls, parts, edges, build_order>>
       ELSE /\ parts' = dict_set(parts, part_name, part)
            /\ last' = Call("add_part", part_name, <<part>>, overwrite, NoError)
            /\ UNCHANGED <<cls, edges, build_order>>

Geo3DData_remove_part(part_name, ignore_if_absent) ==
    /\ cls = "Geo3DData"
    /\ IF part_name \in DOMAIN parts
       THEN /\ parts' = dict_del(parts, part_name)
            /\ last' = Call("remove_part", part_name, <<>>, ignore_if_absent, NoError)
            /\ UNCHANGED <<cls, edges, build_order>>
       ELSE /\ last' = Call("remove_part", part_name, <<>>, ignore_if_absent,
                            IF ~ignore_if_absent THEN NotFoundError ELSE NoError)
            /\ UNCHANGED <<cls, parts, edges, build_order>>

(* --------------------------- specification ---------------------------- *)

Next ==
    \/ \E n \in Names, s \in Points, e \in Points, o \in BOOLEAN :
          Geo1DData_add_part(n, s, e, o)
    \/ \E n \in Names, i \in BOOLEAN : Geo1DData_remove_part(n, i)
    \/ \E n \in Names, p \in Polygons, o \in BOOLEAN : Geo2DData_add_part(n, p, o)
    \/ \E n \in Names, i \in BOOLEAN : Geo2DData_remove_part(n, i)
    \/ \E n \in Names, l \in LineStrings, o \in BOOLEAN : Geo2DData_add_edge(n, l, o)
    \/ \E n \in Names, i \in BOOLEAN : Geo2DData_remove_edge(n, i)
    \/ \E n \in Names, p \in Part3Ds, o \in BOOLEAN : Geo3DData_add_part(n, p, o)
    \/ \E n \in Names, i \in BOOLEAN : Geo3DData_remove_part(n, i)

Spec == Init /\ [][Next]_vars

(* ----------------------- shared vocabulary ---------------------------- *)

state == <<parts, edges, build_order>>

\* the registry a method works on, as it was before the call
Registry(op) == IF op \in {"add_edge", "remove_edge"} THEN edges ELSE parts

\* the same registry after the call
RegistryAfter(op) == IF op \in {"add_edge", "remove_edge"} THEN edges' ELSE parts'

\* the call made by the step is an add whose validity test (2D parts only) passes
ValidAdd(c) ==
    /\ c.op \in {"add_part", "add_edge"}
    /\ (cls = "Geo2DData" /\ c.op = "add_part") => c.args[1].is_valid

Keys2D == (DOMAIN parts) \cup (DOMAIN edges)

\* how many of the two registries hold the name
Holders(n) == (IF n \in DOMAIN parts THEN 1 ELSE 0)
              + (IF n \in DOMAIN edges THEN 1 ELSE 0)

Min2(a, b) == IF a <= b THEN a ELSE b
Max2(a, b) == IF a <= b THEN b ELSE a

(* ------------------------------- C1 ----------------------------------- *)

\* C1: in every class, adding a name that is already a key of the target
\* registry with overwrite = FALSE (and, for a 2D part, a valid polygon)
\* ends with the duplicate-name error and leaves parts, edges and
\* build_order exactly as they were.
C1_DuplicateAddFails ==
    [][ (ValidAdd(last') /\ last'.name \in DOMAIN Registry(last'.op) /\ ~last'.flag)
            => (last'.err = DuplicateNameError /\ UNCHANGED state) ]_vars

C1_Witness ==
    /\ cls = "Geo2DData"
    /\ last.op = "add_edge"
    /\ last.err = DuplicateNameError
    /\ last.name \in DOMAIN edges
    /\ edges[last.name] # last.args[1]

(* ------------------------------- C2 ----------------------------------- *)

\* C2: removing a name that is not a key of the target registry ends with
\* the not-found error when ignore_if_absent = FALSE and without error
\* when it is TRUE; either way parts, edges and build_order are unchanged.
C2_AbsentRemove ==
    [][ (last'.op \in {"remove_part", "remove_edge"}
         /\ last'.name \notin DOMAIN Registry(last'.op))
            => /\ last'.err = (IF last'.flag THEN NoError ELSE NotFoundError)
               /\ UNCHANGED state ]_vars

\* the second remove_part("a") of add_part / remove_part / remove_part
C2_Witness ==
    /\ cls = "Geo3DData"
    /\ last.op = "remove_part"
    /\ ~last.flag
    /\ last.err = NotFoundError
    /\ parts = EmptyDict

(* ------------------------------- C3 ----------------------------------- *)

\* C3: in Geo2DData every name that occurs in build_order is a key of
\* parts or a key of edges.
C3_OrderNamesPresent ==
    cls = "Geo2DData" => Range(build_order) \subseteq Keys2D

(* ------------------------------- C4 ----------------------------------- *)

\* C4: in Geo2DData every name occurs in build_order at least once per
\* registry that holds it, and removing a name that is a key of its
\* registry never fails.
C4_KeysInOrder ==
    /\ [](cls = "Geo2DData" =>
            \A n \in Names : Count(n, build_order) >= Holders(n))
    /\ [][ (cls = "Geo2DData"
            /\ last'.op \in {"remove_part", "remove_edge"}
            /\ last'.name \in DOMAIN Registry(last'.op))
               => last'.err = NoError ]_vars

C4_Witness ==
    /\ cls = "Geo2DData"
    /\ last.op = "remove_edge"
    /\ ~last.flag
    /\ last.err = NoError
    /\ last.name \in DOMAIN parts
    /\ last.name \notin DOMAIN edges
    /\ Count(last.name, build_order) = 1

(* ------------------------------- C5 ----------------------------------- *)

\* C5: in Geo2DData every name of build_order is a key of exactly one of
\* parts and edges: the two key sets are disjoint and together cover the
\* names of build_order.
C5_Partition ==
    cls = "Geo2DData" =>
        /\ (DOMAIN parts) \cap (DOMAIN edges) = {}
        /\ \A n \in Range(build_order) : Holders(n) = 1

(* ------------------------------- C6 ----------------------------------- *)

\* C6: in Geo2DData an add_part (valid polygon) or add_edge with
\* overwrite = TRUE on a name already in the target registry succeeds,
\* stores the new value under the name, and appends the name once at the
\* end of build_order, where it then occurs at least twice.
C6_OverwriteAppends ==
    [][ (cls = "Geo2DData" /\ ValidAdd(last') /\ last'.flag
         /\ last'.name \in DOMAIN Registry(last'.op))
            => /\ last'.err = NoError
               /\ RegistryAfter(last'.op)[last'.name] = last'.args[1]
               /\ DOMAIN RegistryAfter(last'.op) = DOMAIN Registry(last'.op)
               /\ Len(build_order') = Len(build_order) + 1
               /\ SubSeq(build_order', 1, Len(build_order)) = build_order
               /\ build_order'[Len(build_order')] = last'.name
               /\ Count(last'.name, build_order') >= 2 ]_vars

C6_Witness ==
    /\ cls = "Geo2DData"
    /\ last.op = "add_part"
    /\ last.flag
    /\ last.err = NoError
    /\ Count(last.name, build_order) = 2
    /\ DOMAIN edges = {}

(* ------------------------------- C7 ----------------------------------- *)

\* C7: Geo2DData.add_part with a polygon that is not valid ends with the
\* invalid-geometry error and changes nothing, whatever the flag and the
\* name; add_edge never tests validity: it ends with that error for no
\* line, and stores any line whose name is new or may be overwritten.
C7_InvalidPolygon ==
    [][ /\ (cls = "Geo2DData" /\ last'.op = "add_part" /\ ~last'.args[1].is_valid)
            => (last'.err = InvalidGeometryError /\ UNCHANGED state)
        /\ (cls = "Geo2DData" /\ last'.op = "add_edge")
            => /\ last'.err # InvalidGeometryError
               /\ (last'.flag \/ last'.name \notin DOMAIN edges)
                    => (last'.err = NoError /\ edges'[last'.name] = last'.args[1])
      ]_vars

C7_Witness ==
    /\ cls = "Geo2DData"
    /\ last.op = "add_part"
    /\ ~last.args[1].is_valid
    /\ ~last.flag
    /\ last.name \in DOMAIN parts
    /\ last.err = InvalidGeometryError
    /\ \E n \in DOMAIN edges : ~edges[n].is_valid

(* ------------------------------- C8 ----------------------------------- *)

\* C8: a successful Geo1DData.add_part(name, start, end) stores
\* (min(start, end), max(start, end)) for name, and every stored interval
\* (s, e) has s <= e.
C8_SortedInterval ==
    /\ [][ (cls = "Geo1DData" /\ last'.op = "add_part" /\ last'.err = NoError)
              => parts'[last'.name] = <<Min2(last'.args[1], last'.args[2]),
                                        Max2(last'.args[1], last'.args[2])>> ]_vars
    /\ [](cls = "Geo1DData" => \A n \in DOMAIN parts : parts[n][1] <= parts[n][2])

C8_Witness ==
    /\ cls = "Geo1DData"
    /\ last.op = "add_part"
    /\ last.err = NoError
    /\ last.args[1] > last.args[2]
    /\ parts[last.name] = <<last.args[2], last.args[1]>>

(* ------------------------------- C9 ----------------------------------- *)

\* t is s without its first occurrence of n, the other entries in order
FirstRemoved(s, n, t) ==
    \E i \in 1 .. Len(s) :
        /\ s[i] = n
        /\ \A j \in 1 .. (i - 1) : s[j] # n
        /\ Len(t) = Len(s) - 1
        /\ \A j \in 1 .. (i - 1) : t[j] = s[j]
        /\ \A j \in i .. Len(t) : t[j] = s[j + 1]

\* d2 is d without key n, the other keys keeping their values
KeyDeleted(d, n, d2) ==
    /\ DOMAIN d2 = (DOMAIN d) \ {n}
    /\ \A m \in DOMAIN d2 : d2[m] = d[m]

\* C9: in Geo2DData remove_part of a key of parts deletes that key,
\* removes the first occurrence of the name from build_order keeping the
\* rest in order, and leaves edges alone; remove_edge likewise with parts
\* and edges exchanged.
C9_RemoveFirst ==
    [][ /\ (cls = "Geo2DData" /\ last'.op = "remove_part"
            /\ last'.name \in DOMAIN parts)
            => /\ KeyDeleted(parts, last'.name, parts')
               /\ FirstRemoved(build_order, last'.name, build_order')
               /\ edges' = edges
        /\ (cls = "Geo2DData" /\ last'.op = "remove_edge"
            /\ last'.name \in DOMAIN edges)
            => /\ KeyDeleted(edges, last'.name, edges')
               /\ FirstRemoved(build_order, last'.name, build_order')
               /\ parts' = parts
      ]_vars

\* a removal that took the first of two occurrences: <<a, b, a>> -> <<b, a>>
C9_Witness ==
    /\ cls = "Geo2DData"
    /\ last.op = "remove_part"
    /\ ~last.flag
    /\ last.err = NoError
    /\ Len(build_order) = 2
    /\ build_order[2] = last.name
    /\ build_order[1] # last.name
    /\ build_order[1] \in DOMAIN parts

(* ------------------------------- C10 ---------------------------------- *)

\* C10: in Geo3DData build_order is the empty sequence in every state
\* reached by add_part and remove_part, whatever parts holds.
C10_OrderStaysEmpty ==
    cls = "Geo3DData" => build_order = <<>>

C10_Witness ==
    /\ cls = "Geo3DData"
    /\ DOMAIN parts = Names
    /\ last.op = "add_part"
    /\ last.flag
    /\ last.err = NoError
    /\ build_order = <<>>

====
